---- MODULE Spec2Model ----
(***************************************************************************)
(* shepherd: a command-line manager of tracked git repositories.           *)
(*                                                                         *)
(* A Rust String is a sequence of one-character strings, so that          *)
(* starts_with, strip_prefix, format!, len and path resolution are        *)
(* computed as the code computes them.  An Option is a sequence of length *)
(* zero (None) or one (Some).                                              *)
(***************************************************************************)
EXTENDS Integers, Sequences, FiniteSets, TLC

VARIABLES
    pc,      \* position of the running process: idle, load, run, fetch, exited
    argv,    \* std::env::args of the invocation (argv[0] included)
    rest,    \* the part of args the parser's iterator has not yielded yet
    heads,   \* history: the tokens the parser's while loop examined as `arg`
    state,   \* lib.rs State
    config,  \* config.rs Config of the running process
    fs,      \* the filesystem: directories and files (persists across runs)
    io,      \* the outcomes the environment gave the last step
    stdout,  \* what the invocation printed to standard output
    stderr,  \* what the invocation printed to standard error
    exit,    \* exit status of the invocation, <<>> while it is running
    gitlog,  \* the external `git` invocations of the current fetch_repos
    idx,     \* fetch_repos: position of the loop in config.repositories
    runs,    \* number of invocations (or library calls) made so far
    res,     \* the last Config call and its result
    prev     \* history: argv, stdout, config and fs as the last invocation
             \* (or library call) found them when it started

vars == <<pc, argv, rest, heads, state, config, fs, io, stdout, stderr, exit,
          gitlog, idx, runs, res, prev>>

-----------------------------------------------------------------------------
(* Bounds of the model *)

MaxRuns == 3
MaxArgs == 5
MaxCalls == 5

-----------------------------------------------------------------------------
(* String literals of the program *)

s_dashdash == <<"-", "-">>
s_dash == <<"-">>
s_help == <<"h", "e", "l", "p">>
s_dump_config == <<"d", "u", "m", "p", "-", "c", "o", "n", "f", "i", "g">>
s_config == <<"c", "o", "n", "f", "i", "g">>
s_add == <<"a", "d", "d">>
s_fetch == <<"f", "e", "t", "c", "h">>
s_list == <<"l", "i", "s", "t">>
s_category_flag == <<"-", "-", "c", "a", "t", "e", "g", "o", "r", "y">>
s_c_flag == <<"-", "c">>
s_git_C == <<"-", "C">>
s_git_fetch == <<"f", "e", "t", "c", "h">>
s_git_all == <<"-", "-", "a", "l", "l">>
s_git_clone == <<"c", "l", "o", "n", "e">>
s_slash == <<"/">>
s_Name == <<"N", "a", "m", "e">>
s_URL == <<"U", "R", "L">>

\* env::var("HOME")
HOME == <<"/", "h">>

\* format!("{}/.config/shepherd/config.toml", HOME)
DefaultConfigPath ==
    HOME \o <<"/", ".", "c", "o", "n", "f", "i", "g", "/", "s", "h", "e", "p",
              "h", "e", "r", "d", "/", "c", "o", "n", "f", "i", "g", ".", "t",
              "o", "m", "l">>

\* format!("{}/sources", HOME)
DefaultSourceDir == HOME \o <<"/", "s", "o", "u", "r", "c", "e", "s">>

-----------------------------------------------------------------------------
(* Strings *)

StartsWith(x, p) == Len(x) >= Len(p) /\ SubSeq(x, 1, Len(p)) = p

StripPrefix(x, p) == SubSeq(x, Len(p) + 1, Len(x))

Some(x) == <<x>>

IsSome(o) == o # <<>>

-----------------------------------------------------------------------------
(* Paths and the filesystem.  A path resolves to its sequence of          *)
(* components: empty components ("//", a trailing "/") name nothing.      *)
(* Relative paths resolve against the working directory, taken to be the  *)
(* root.  fs.dirs is the set of directories, fs.files maps each regular   *)
(* file to its contents.                                                   *)

RECURSIVE SplitPath(_, _, _)
SplitPath(p, cur, acc) ==
    IF p = <<>>
    THEN IF cur = <<>> THEN acc ELSE Append(acc, cur)
    ELSE IF Head(p) = "/"
         THEN SplitPath(Tail(p), <<>>, IF cur = <<>> THEN acc ELSE Append(acc, cur))
         ELSE SplitPath(Tail(p), Append(cur, Head(p)), acc)

Components(p) == SplitPath(p, <<>>, <<>>)

RECURSIVE JoinPath(_)
JoinPath(comps) ==
    IF comps = <<>> THEN <<>> ELSE s_slash \o Head(comps) \o JoinPath(Tail(comps))

\* Path::parent: None when the path ends in a root or is empty, else the path
\* without its last component ("" for a bare file name).
PathParent(p) ==
    LET comps == Components(p)
    IN  IF comps = <<>>
        THEN <<>>
        ELSE Some(JoinPath(SubSeq(comps, 1, Len(comps) - 1)))

Prefixes(comps) == {SubSeq(comps, 1, n) : n \in 0..Len(comps)}

IsDir(f, p) == Components(p) \in f.dirs

IsFile(f, p) == Components(p) \in DOMAIN f.files

PathExists(f, p) == IsDir(f, p) \/ IsFile(f, p)

\* fs::create_dir_all: Ok on the empty path; an error when the environment
\* refuses or a component is a regular file.
CreateDirAll(f, p, envOk) ==
    LET comps == Components(p)
    IN  IF p = <<>>
        THEN [ok |-> TRUE, fs |-> f]
        ELSE IF ~envOk \/ \E q \in Prefixes(comps) : q \in DOMAIN f.files
             THEN [ok |-> FALSE, fs |-> f]
             ELSE [ok |-> TRUE, fs |-> [f EXCEPT !.dirs = @ \cup Prefixes(comps)]]

\* fs::write: creates or replaces the whole file; fails on the empty path, on
\* a directory, under a missing parent, or when the environment refuses.
FsWrite(f, p, text, envOk) ==
    LET comps == Components(p)
    IN  IF \/ ~envOk
           \/ comps = <<>>
           \/ comps \in f.dirs
           \/ SubSeq(comps, 1, Len(comps) - 1) \notin f.dirs
        THEN [ok |-> FALSE, fs |-> f]
        ELSE [ok |-> TRUE,
              fs |-> [f EXCEPT !.files =
                        [q \in DOMAIN f.files \cup {comps} |->
                            IF q = comps THEN text ELSE f.files[q]]]]

\* fs::read_to_string
FsReadToString(f, p, envOk) ==
    IF envOk /\ IsFile(f, p)
    THEN [ok |-> TRUE, text |-> f.files[Components(p)]]
    ELSE [ok |-> FALSE, text |-> <<>>]

-----------------------------------------------------------------------------
(* The persisted format (serde + toml).  A document is a sequence of      *)
(* lines: `key = "val"`, `key = []`, or a `[[key]]` array-of-tables       *)
(* header.  #[serde(skip)] keeps config_location out of the document; a   *)
(* None category writes no line.                                           *)

Scalar(k, v) == [kind |-> "scalar", key |-> k, val |-> v]

EmptyArray(k) == [kind |-> "empty_array", key |-> k, val |-> <<>>]

TableHeader(k) == [kind |-> "table", key |-> k, val |-> <<>>]

\* A line no TOML parser accepts (a hand edit gone wrong).
InvalidLine == [kind |-> "invalid", key |-> "", val |-> <<>>]

\* Repository { name, url, category }: the three fields run(Cmd::Add) passes
\* to Repository::new.
RepositoryNew(name, url, category) ==
    [name |-> name, url |-> url, category |-> category]

SerCategory(r) ==
    IF IsSome(r.category) THEN <<Scalar("category", r.category[1])>> ELSE <<>>

SerRepository(r) ==
    <<TableHeader("repositories"), Scalar("name", r.name), Scalar("url", r.url)>>
        \o SerCategory(r)

RECURSIVE SerRepositories(_)
SerRepositories(repos) ==
    IF repos = <<>>
    THEN <<>>
    ELSE SerRepository(Head(repos)) \o SerRepositories(Tail(repos))

\* toml::to_string(&self)
TomlToString(c) ==
    <<Scalar("source_dir", c.source_dir)>>
        \o (IF c.repositories = <<>>
            THEN <<EmptyArray("repositories")>>
            ELSE SerRepositories(c.repositories))

\* The scalar lines up to the next header: the body of one table.
RECURSIVE TableBody(_)
TableBody(lines) ==
    IF lines = <<>> \/ Head(lines).kind # "scalar"
    THEN <<>>
    ELSE <<Head(lines)>> \o TableBody(Tail(lines))

FieldValues(body, k) ==
    LET HasKey(l) == l.key = k
    IN  SelectSeq(body, HasKey)

DeCategory(body) ==
    LET cats == FieldValues(body, "category")
    IN  IF cats = <<>> THEN <<>> ELSE Some(cats[1].val)

DeRepository(body) ==
    LET names == FieldValues(body, "name")
        urls == FieldValues(body, "url")
    IN  IF Len(names) # 1 \/ Len(urls) # 1 \/ Len(FieldValues(body, "category")) > 1
        THEN [ok |-> FALSE, repo |-> RepositoryNew(<<>>, <<>>, <<>>)]
        ELSE [ok |-> TRUE,
              repo |-> RepositoryNew(names[1].val, urls[1].val, DeCategory(body))]

RECURSIVE DeRepositories(_)
DeRepositories(lines) ==
    IF lines = <<>>
    THEN [ok |-> TRUE, repos |-> <<>>]
    ELSE IF Head(lines) # TableHeader("repositories")
         THEN [ok |-> FALSE, repos |-> <<>>]
         ELSE LET body == TableBody(Tail(lines))
                  r == DeRepository(body)
                  more == DeRepositories(SubSeq(lines, Len(body) + 2, Len(lines)))
              IN  IF r.ok /\ more.ok
                  THEN [ok |-> TRUE, repos |-> <<r.repo>> \o more.repos]
                  ELSE [ok |-> FALSE, repos |-> <<>>]

\* toml::from_str::<Config>: both source_dir and repositories are required;
\* the skipped config_location takes its default, the empty string.
TomlFromStr(text) ==
    LET top == TableBody(text)
        after == SubSeq(text, Len(top) + 1, Len(text))
        dirs == FieldValues(top, "source_dir")
        repos == IF after = <<EmptyArray("repositories")>>
                 THEN [ok |-> TRUE, repos |-> <<>>]
                 ELSE IF after = <<>>
                      THEN [ok |-> FALSE, repos |-> <<>>]
                      ELSE DeRepositories(after)
        bad == [config_location |-> <<>>, source_dir |-> <<>>, repositories |-> <<>>]
    IN  IF Len(dirs) # 1 \/ ~repos.ok
        THEN [ok |-> FALSE, config |-> bad]
        ELSE [ok |-> TRUE,
              config |-> [config_location |-> <<>>,
                          source_dir |-> dirs[1].val,
                          repositories |-> repos.repos]]

-----------------------------------------------------------------------------
(* config.rs: Config *)

\* Config::new
ConfigNew ==
    [config_location |-> <<>>, source_dir |-> DefaultSourceDir, repositories |-> <<>>]

\* read_config, the file exists: read it, parse it, `*self = toml`.  A `?`
\* returns the error and leaves self as it was.
ReadExisting_KeepRepositories(self, filename, f, env) ==
    LET raw == FsReadToString(f, filename, env.read)
        toml == TomlFromStr(raw.text)
    IN  IF ~raw.ok
        THEN [result |-> "Err(io::Error)", config |-> self, fs |-> f]
        ELSE IF ~toml.ok
             THEN [result |-> "Err(toml::de::Error)", config |-> self, fs |-> f]
             ELSE [result |-> "Ok",
                   config |-> [self EXCEPT !.source_dir = toml.config.source_dir,
                                           !.config_location = filename],
                   fs |-> f]

ReadExisting(self, filename, f, env) ==
    LET raw == FsReadToString(f, filename, env.read)
        toml == TomlFromStr(raw.text)
    IN  IF ~raw.ok
        THEN [result |-> "Err(io::Error)", config |-> self, fs |-> f]
        ELSE IF ~toml.ok
             THEN [result |-> "Err(toml::de::Error)", config |-> self, fs |-> f]
             ELSE [result |-> "Ok",
                   config |-> [toml.config EXCEPT !.config_location = filename],
                   fs |-> f]

\* read_config, the file does not exist: write self to it, under its parent
\* directories.  unwrap and expect panic on an error.
WriteDefault_NoMkdir(self, filename, f, env) ==
    LET written == FsWrite(f, filename, TomlToString(self), env.write)
    IN  IF ~written.ok
        THEN [result |-> "panic", config |-> self, fs |-> f]
        ELSE [result |-> "Ok",
              config |-> [self EXCEPT !.config_location = filename],
              fs |-> written.fs]

WriteDefault(self, filename, f, env) ==
    LET text == TomlToString(self)
        parent == PathParent(filename)
        path == IF IsSome(parent) THEN parent[1] ELSE filename
        made == CreateDirAll(f, path, env.mkdir)
        written == FsWrite(made.fs, filename, text, env.write)
    IN  IF ~made.ok
        THEN [result |-> "panic", config |-> self, fs |-> f]
        ELSE IF ~written.ok
             THEN [result |-> "panic", config |-> self, fs |-> made.fs]
             ELSE [result |-> "Ok",
                   config |-> [self EXCEPT !.config_location = filename],
                   fs |-> written.fs]

\* Config::read_config.  env.read, env.mkdir, env.write: whether the
\* environment lets the read, the directory creation and the write through.
ReadConfig(self, filename, f, env) ==
    IF PathExists(f, filename)
    THEN ReadExisting(self, filename, f, env)
    ELSE WriteDefault(self, filename, f, env)

\* save_config with the error of fs::write dropped
SaveConfig_IgnoreError(self, f, envWrite) ==
    LET written == FsWrite(f, self.config_location, TomlToString(self), envWrite)
    IN  [result |-> "Ok", fs |-> written.fs]

\* Config::save_config
SaveConfig(self, f, envWrite) ==
    LET written == FsWrite(f, self.config_location, TomlToString(self), envWrite)
    IN  [result |-> IF written.ok THEN "Ok" ELSE "Err(io::Error)", fs |-> written.fs]

-----------------------------------------------------------------------------
(* lib.rs: State::new, the argument parser *)

StateInit ==
    [cmd |-> "None", url |-> <<>>, name |-> <<>>, category |-> <<>>,
     config |-> DefaultConfigPath]

\* args.next(): the iterator keeps answering None once it is exhausted.
ArgsNext(args) ==
    IF args = <<>>
    THEN [val |-> <<>>, rest |-> <<>>]
    ELSE [val |-> Some(Head(args)), rest |-> Tail(args)]

\* the short-flag loop: `for opt in options`
RECURSIVE ShortFlags(_, _)
ShortFlags(options, cmd) ==
    IF options = <<>>
    THEN cmd
    ELSE ShortFlags(Tail(options), IF Head(options) = "h" THEN "Help" ELSE cmd)

\* the `add` branch with only the long spelling of the category flag
ParseAdd_LongOnly(st, args) ==
    LET next == ArgsNext(args)
        isCat == IsSome(next.val) /\ next.val[1] = s_category_flag
        cat == ArgsNext(next.rest)
        name == IF isCat THEN ArgsNext(cat.rest) ELSE next
        st1 == IF isCat THEN [st EXCEPT !.category = cat.val] ELSE st
        st2 == [st1 EXCEPT !.name = name.val]
        url == ArgsNext(name.rest)
    IN  IF IsSome(name.val)
        THEN IF IsSome(url.val)
             THEN [st |-> [st2 EXCEPT !.cmd = "Add", !.url = url.val],
                   rest |-> url.rest, err |-> <<>>]
             ELSE [st |-> st2, rest |-> url.rest,
                   err |-> <<"No URL provided for command">>]
        ELSE [st |-> st1, rest |-> name.rest,
              err |-> <<"No Name provided for command">>]

\* the `add` branch
ParseAdd(st, args) ==
    LET next == ArgsNext(args)
        isCat == IsSome(next.val) /\ next.val[1] \in {s_category_flag, s_c_flag}
        cat == ArgsNext(next.rest)
        name == IF isCat THEN ArgsNext(cat.rest) ELSE next
        st1 == IF isCat THEN [st EXCEPT !.category = cat.val] ELSE st
        st2 == [st1 EXCEPT !.name = name.val]
        url == ArgsNext(name.rest)
    IN  IF IsSome(name.val)
        THEN IF IsSome(url.val)
             THEN [st |-> [st2 EXCEPT !.cmd = "Add", !.url = url.val],
                   rest |-> url.rest, err |-> <<>>]
             ELSE [st |-> st2, rest |-> url.rest,
                   err |-> <<"No URL provided for command">>]
        ELSE [st |-> st1, rest |-> name.rest,
              err |-> <<"No Name provided for command">>]

Parsed(st, args, err) == [st |-> st, rest |-> args, err |-> err]

\* the `--long` branch
ParseLong(st, x, args) ==
    LET option == StripPrefix(x, s_dashdash)
        file == ArgsNext(args)
    IN  IF option = s_help
        THEN Parsed([st EXCEPT !.cmd = "Help"], args, << >>)
        ELSE IF option = s_dump_config
        THEN Parsed([st EXCEPT !.cmd = "DumpConfig"], args, << >>)
        ELSE IF option = s_config
        THEN IF IsSome(file.val)
             THEN Parsed([st EXCEPT !.config = file.val[1]], file.rest, << >>)
             ELSE Parsed(st, file.rest, <<"Expected config argument">>)
        ELSE Parsed(st, args, << >>)

\* the `-short` branch
ParseShort(st, x, args) ==
    Parsed([st EXCEPT !.cmd = ShortFlags(StripPrefix(x, s_dash), st.cmd)], args, << >>)

\* the command branch, entered while no command is set
ParseCommand(st, x, args) ==
    IF x = s_add
    THEN ParseAdd(st, args)
    ELSE IF x = s_fetch
    THEN Parsed([st EXCEPT !.cmd = "Fetch"], args, << >>)
    ELSE IF x = s_list
    THEN Parsed([st EXCEPT !.cmd = "List"], args, << >>)
    ELSE Parsed(st, args, << >>)

\* the iteration without `if let None = state.cmd`: a verb replaces a command
ParseArg_AnyVerb(st, x, args) ==
    IF StartsWith(x, s_dashdash)
    THEN ParseLong(st, x, args)
    ELSE IF StartsWith(x, s_dash)
    THEN ParseShort(st, x, args)
    ELSE ParseCommand(st, x, args)

\* one iteration of `while let Some(x) = &arg`: x is the argument, args the
\* iterator behind it
ParseArg(st, x, args) ==
    IF StartsWith(x, s_dashdash)
    THEN ParseLong(st, x, args)
    ELSE IF StartsWith(x, s_dash)
    THEN ParseShort(st, x, args)
    ELSE IF st.cmd = "None"
    THEN ParseCommand(st, x, args)
    ELSE Parsed(st, args, << >>)

\* the fallback after the loop
HelpFallback(st) == IF st.cmd = "None" THEN [st EXCEPT !.cmd = "Help"] ELSE st

RECURSIVE ParseLoop(_, _, _)
ParseLoop(st, args, err) ==
    IF args = <<>>
    THEN [st |-> HelpFallback(st), err |-> err]
    ELSE LET r == ParseArg(st, Head(args), Tail(args))
         IN  ParseLoop(r.st, r.rest, err \o r.err)

\* State::new(args)
StateNew(args) == ParseLoop(StateInit, args, <<>>)

-----------------------------------------------------------------------------
(* lib.rs: run and fetch_repos *)

Line(tag, cols) == [tag |-> tag, cols |-> cols]

Max(S) == IF S = {} THEN 0 ELSE CHOOSE m \in S : \A n \in S : n <= m

\* {:width$}: a string is left-aligned and padded with spaces, never cut
Pad(s, width) == s \o [i \in 1..(width - Len(s)) |-> " "]

\* Option<String> -> String of run(Cmd::Add): `_ => String::new()`
UnwrapOrEmpty(o) == IF IsSome(o) THEN o[1] ELSE <<>>

\* the Repository that run(Cmd::Add) builds from the parsed State
AddedRepository(st) ==
    RepositoryNew(UnwrapOrEmpty(st.name), UnwrapOrEmpty(st.url), st.category)

\* the lookup comparing names alone
IsTracked_ByName(c, repo) ==
    \E i \in 1..Len(c.repositories) : c.repositories[i].name = repo.name

\* config.repositories.iter().find(|x| **x == repo): derived PartialEq
IsTracked(c, repo) == \E i \in 1..Len(c.repositories) : c.repositories[i] = repo

\* an insert at the front instead of a push
Push_Front(c, repo) == [c EXCEPT !.repositories = <<repo>> \o @]

\* config.repositories.push(repo)
Push(c, repo) == [c EXCEPT !.repositories = Append(@, repo)]

\* the lines run(Cmd::List) prints
ListLines(c) ==
    LET repos == c.repositories
        name_width == Max({Len(repos[i].name) : i \in 1..Len(repos)})
        url_width == Max({Len(repos[i].url) : i \in 1..Len(repos)})
    IN  <<Line("header", <<Pad(s_Name, name_width), Pad(s_URL, url_width)>>)>>
            \o [i \in 1..Len(repos) |->
                    Line("row", <<Pad(repos[i].name, name_width),
                                  Pad(repos[i].url, url_width),
                                  UnwrapOrEmpty(repos[i].category)>>)]

\* `path` with the category left out
CategoryPath_Flat(c, repo) == c.source_dir

\* fetch_repos: `path`, the directory git is pointed at when cloning
CategoryPath(c, repo) ==
    IF IsSome(repo.category)
    THEN c.source_dir \o s_slash \o repo.category[1] \o s_slash
    ELSE c.source_dir

\* fetch_repos: `fullpath`
FullPath(c, repo) == CategoryPath(c, repo) \o s_slash \o repo.name

\* Command::new("git").args([...])
GitFetchArgs(c, repo) == <<s_git_C, FullPath(c, repo), s_git_fetch, s_git_all>>

GitCloneArgs(c, repo) == <<s_git_C, CategoryPath(c, repo), s_git_clone, repo.url, repo.name>>

\* The external client.  outcome: "nospawn" (status() is an Err), "nonzero"
\* or "zero" (the exit status).  A clone that exits zero has made the
\* directory <dir>/<name>; git cannot exit zero under a -C directory that
\* does not exist.
GitOutcomes(f, args) ==
    IF IsDir(f, args[2]) THEN {"nospawn", "nonzero", "zero"} ELSE {"nospawn", "nonzero"}

GitEffect(f, args, outcome) ==
    IF args[3] = s_git_clone /\ outcome = "zero"
    THEN [f EXCEPT !.dirs = @ \cup {Append(Components(args[2]), args[5])}]
    ELSE f

-----------------------------------------------------------------------------
(* Inputs of the model *)

argv0 == <<"s", "h", "e", "p", "h", "e", "r", "d">>

n_r == <<"r">>
n_c == <<"c">>
u_U == <<"U">>
u_V == <<"V">>

\* a source_dir a user wrote into the file by hand
OtherSourceDir == <<"/", "s">>

\* the command lines of the whole-program specification
CommandLines ==
    { <<s_add, n_r, u_U>>,
      <<s_add, n_r, u_V>>,
      <<s_add, n_c, u_U>>,
      <<s_add, s_category_flag, n_c, n_r, u_U>>,
      <<s_list>>,
      <<s_fetch>>,
      <<s_dashdash \o s_dump_config>>,
      << >> }

\* the tokens of the parser specification
Tokens ==
    { s_dashdash \o s_help, s_dashdash \o s_dump_config, s_dashdash \o s_config,
      s_dash \o <<"h">>, s_c_flag, s_add, s_fetch, n_r }

EnvOk == [read |-> TRUE, mkdir |-> TRUE, write |-> TRUE, git |-> "none"]

NoResult == [op |-> "none", result |-> "none"]

\* what `prev` remembers
Snapshot == [argv |-> argv, stdout |-> stdout, config |-> config, fs |-> fs]

\* The filesystems an invocation can find: the home directory exists; the
\* inventory file at `path` is missing (with its parent directories), or is
\* there, written by an earlier run or edited by hand.
InitialFilesystems(path) ==
    LET home == {<< >>, Components(HOME)}
        parents == Prefixes(Components(path))  \ {Components(path)}
        File(text) == [q \in {Components(path)} |-> text]
    IN  { [dirs |-> home, files |-> << >>] }
        \cup { [dirs |-> home \cup parents, files |-> File(text)] :
                 text \in { <<InvalidLine>>,
                            TomlToString(ConfigNew),
                            TomlToString([ConfigNew EXCEPT !.source_dir = OtherSourceDir]) } }

-----------------------------------------------------------------------------
(* The whole program: main.rs main, one invocation after another *)

Init ==
    /\ pc = "idle"
    /\ argv = << >>
    /\ rest = << >>
    /\ heads = << >>
    /\ state = StateInit
    /\ config = ConfigNew
    /\ fs \in InitialFilesystems(DefaultConfigPath)
    /\ io = EnvOk
    /\ stdout = << >>
    /\ stderr = << >>
    /\ exit = << >>
    /\ gitlog = << >>
    /\ idx = 0
    /\ runs = 0
    /\ res = NoResult
    /\ prev = Snapshot

\* main: State::new(env::args()) and Config::new()
Start(cl) ==
    /\ pc \in {"idle", "exited"}
    /\ runs < MaxRuns
    /\ LET parsed == StateNew(<<argv0>> \o cl)
       IN  /\ state' = parsed.st
           /\ stderr' = parsed.err
    /\ argv' = <<argv0>> \o cl
    /\ config' = ConfigNew
    /\ pc' = "load"
    /\ runs' = runs + 1
    /\ io' = EnvOk
    /\ stdout' = << >>
    /\ exit' = << >>
    /\ gitlog' = << >>
    /\ idx' = 0
    /\ res' = NoResult
    /\ prev' = Snapshot
    /\ UNCHANGED <<rest, heads, fs>>

LoadEnvs(f, path) ==
    IF PathExists(f, path)
    THEN {[EnvOk EXCEPT !.read = r] : r \in BOOLEAN}
    ELSE {[EnvOk EXCEPT !.mkdir = m, !.write = w] : m, w \in BOOLEAN}

\* main: config.read_config(&state.config), exit(1) on Err
Load ==
    /\ pc = "load"
    /\ \E env \in LoadEnvs(fs, state.config) :
        LET r == ReadConfig(config, state.config, fs, env)
        IN  /\ io' = env
            /\ res' = [op |-> "read_config", result |-> r.result]
            /\ fs' = r.fs
            /\ config' = r.config
            /\ IF r.result = "Ok"
               THEN /\ pc' = "run"
                    /\ UNCHANGED <<stderr, exit>>
               ELSE IF r.result = "panic"
               THEN /\ pc' = "exited"
                    /\ stderr' = Append(stderr, "panicked")
                    /\ exit' = Some(101)
               ELSE /\ pc' = "exited"
                    /\ stderr' = Append(stderr, "Configuration Error")
                    /\ exit' = Some(1)
    /\ UNCHANGED <<argv, rest, heads, state, stdout, gitlog, idx, runs, prev>>

Finish(status) ==
    /\ pc' = "exited"
    /\ exit' = Some(status)

\* run: Cmd::Help
RunHelp ==
    /\ pc = "run"
    /\ state.cmd = "Help"
    /\ stdout' = <<Line("help_msg", << >>)>>
    /\ Finish(0)
    /\ UNCHANGED <<argv, rest, heads, state, config, fs, io, stderr, gitlog, idx, runs, res, prev>>

\* run: Cmd::DumpConfig
RunDumpConfig ==
    /\ pc = "run"
    /\ state.cmd = "DumpConfig"
    /\ stdout' = <<Line("dump", TomlToString(config))>>
    /\ Finish(0)
    /\ UNCHANGED <<argv, rest, heads, state, config, fs, io, stderr, gitlog, idx, runs, res, prev>>

\* run: Cmd::Add.  A failed save_config returns through `?`: main prints the
\* error and the process still ends with status 0.
RunAdd ==
    /\ pc = "run"
    /\ state.cmd = "Add"
    /\ LET repo == AddedRepository(state)
       IN  IF ~IsTracked(config, repo)
           THEN \E w \in BOOLEAN :
                   LET saved == SaveConfig(Push(config, repo), fs, w)
                   IN  /\ config' = Push(config, repo)
                       /\ io' = [EnvOk EXCEPT !.write = w]
                       /\ res' = [op |-> "save_config", result |-> saved.result]
                       /\ fs' = saved.fs
                       /\ IF saved.result = "Ok"
                          THEN /\ stdout' = <<Line("Repository has been added", << >>)>>
                               /\ UNCHANGED stderr
                          ELSE /\ stderr' = Append(stderr, saved.result)
                               /\ UNCHANGED stdout
           ELSE /\ stdout' = <<Line("Repository is already being tracked", << >>)>>
                /\ UNCHANGED <<config, fs, io, res, stderr>>
    /\ Finish(0)
    /\ UNCHANGED <<argv, rest, heads, state, gitlog, idx, runs, prev>>

\* run: Cmd::List
RunList ==
    /\ pc = "run"
    /\ state.cmd = "List"
    /\ stdout' = ListLines(config)
    /\ Finish(0)
    /\ UNCHANGED <<argv, rest, heads, state, config, fs, io, stderr, gitlog, idx, runs, res, prev>>

\* run: Cmd::Fetch, fetch_repos up to its loop: create_dir_all(&config.source_dir)
RunFetch ==
    /\ pc = "run"
    /\ state.cmd = "Fetch"
    /\ \E m \in BOOLEAN :
        LET made == CreateDirAll(fs, config.source_dir, m)
        IN  /\ io' = [EnvOk EXCEPT !.mkdir = m]
            /\ fs' = made.fs
            /\ stderr' = IF made.ok THEN stderr ELSE Append(stderr, "io::Error")
    /\ idx' = 1
    /\ pc' = "fetch"
    /\ UNCHANGED <<argv, rest, heads, state, config, stdout, exit, gitlog, runs, res, prev>>

\* the record of one Command::new("git")...status()
GitCall(i, args, outcome) == [idx |-> i, args |-> args, outcome |-> outcome]

\* status().unwrap(): an Err panics, any exit status goes on to the next entry
AfterGit(outcome) ==
    IF outcome = "nospawn"
    THEN /\ pc' = "exited"
         /\ exit' = Some(101)
         /\ idx' = idx
    ELSE /\ pc' = "fetch"
         /\ exit' = exit
         /\ idx' = idx + 1

\* fetch_repos: one iteration of `for repo in config.repositories.iter()`
FetchRepo ==
    /\ pc = "fetch"
    /\ idx <= Len(config.repositories)
    /\ LET repo == config.repositories[idx]
       IN  IF IsDir(fs, FullPath(config, repo))
           THEN \E outcome \in GitOutcomes(fs, GitFetchArgs(config, repo)) :
                   /\ stdout' = Append(stdout, Line("FETCHING", <<repo.name>>))
                   /\ gitlog' = Append(gitlog, GitCall(idx, GitFetchArgs(config, repo), outcome))
                   /\ fs' = GitEffect(fs, GitFetchArgs(config, repo), outcome)
                   /\ io' = [EnvOk EXCEPT !.git = outcome]
                   /\ stderr' = IF outcome = "nospawn" THEN Append(stderr, "panicked") ELSE stderr
                   /\ AfterGit(outcome)
           ELSE \E m \in BOOLEAN :
                   LET made == CreateDirAll(fs, CategoryPath(config, repo), m)
                   IN  \E outcome \in GitOutcomes(made.fs, GitCloneArgs(config, repo)) :
                           /\ stdout' = stdout \o <<Line("doesn't exist locally", <<repo.name>>),
                                                    Line("CLONING", <<repo.name>>),
                                                    Line("path", <<CategoryPath(config, repo)>>)>>
                           /\ gitlog' = Append(gitlog, GitCall(idx, GitCloneArgs(config, repo), outcome))
                           /\ fs' = GitEffect(made.fs, GitCloneArgs(config, repo), outcome)
                           /\ io' = [EnvOk EXCEPT !.mkdir = m, !.git = outcome]
                           /\ stderr' = (IF made.ok THEN stderr ELSE Append(stderr, "io::Error"))
                                           \o (IF outcome = "nospawn" THEN <<"panicked">> ELSE << >>)
                           /\ AfterGit(outcome)
    /\ UNCHANGED <<argv, rest, heads, state, config, runs, res, prev>>

\* fetch_repos returns, run returns Ok(()), main ends
FetchDone ==
    /\ pc = "fetch"
    /\ idx > Len(config.repositories)
    /\ Finish(0)
    /\ UNCHANGED <<argv, rest, heads, state, config, fs, io, stdout, stderr, gitlog, idx, runs, res, prev>>

Next ==
    \/ \E cl \in CommandLines : Start(cl)
    \/ Load
    \/ RunHelp
    \/ RunDumpConfig
    \/ RunAdd
    \/ RunList
    \/ RunFetch
    \/ FetchRepo
    \/ FetchDone

Spec == Init /\ [][Next]_vars

-----------------------------------------------------------------------------
(* The argument parser alone: State::new over every token stream of at    *)
(* most MaxArgs tokens behind argv[0], one loop iteration per step.       *)

TokenStreams == UNION {[1..n -> Tokens] : n \in 0..MaxArgs}

InitArgs ==
    /\ pc = "parse"
    /\ argv \in {<<argv0>> \o s : s \in TokenStreams}
    /\ rest = argv
    /\ heads = << >>
    /\ state = StateInit
    /\ config = ConfigNew
    /\ fs = [dirs |-> {<< >>, Components(HOME)}, files |-> << >>]
    /\ io = EnvOk
    /\ stdout = << >>
    /\ stderr = << >>
    /\ exit = << >>
    /\ gitlog = << >>
    /\ idx = 0
    /\ runs = 0
    /\ res = NoResult
    /\ prev = Snapshot

\* `while let Some(x) = &arg { ...; arg = args.next() }`: one iteration
ParseStep ==
    /\ pc = "parse"
    /\ rest # << >>
    /\ LET r == ParseArg(state, Head(rest), Tail(rest))
       IN  /\ state' = r.st
           /\ rest' = r.rest
           /\ stderr' = stderr \o r.err
    /\ heads' = Append(heads, Head(rest))
    /\ UNCHANGED <<pc, argv, config, fs, io, stdout, exit, gitlog, idx, runs, res, prev>>

\* the loop ends: fall back to Help
ParseEnd ==
    /\ pc = "parse"
    /\ rest = << >>
    /\ state' = HelpFallback(state)
    /\ pc' = "parsed"
    /\ UNCHANGED <<argv, rest, heads, config, fs, io, stdout, stderr, exit, gitlog, idx, runs, res, prev>>

NextArgs == ParseStep \/ ParseEnd

SpecArgs == InitArgs /\ [][NextArgs]_vars

-----------------------------------------------------------------------------
(* The Config library alone: Config::new, read_config, save_config and    *)
(* pushes onto the public `repositories`, called in any order against the *)
(* inventory path state.config.                                           *)

\* the inventory paths of the library specification: the default, one under
\* another missing directory, and a bare file name
ConfigPaths == {DefaultConfigPath, <<"/", "t", "/", "c">>, <<"c">>}

Repositories ==
    { RepositoryNew(n_r, u_U, << >>),
      RepositoryNew(n_r, u_V, << >>),
      RepositoryNew(n_r, u_U, Some(n_c)) }

InitApi ==
    /\ pc = "api"
    /\ argv = << >>
    /\ rest = << >>
    /\ heads = << >>
    /\ \E path \in ConfigPaths :
        /\ state = [StateInit EXCEPT !.config = path]
        /\ fs \in InitialFilesystems(path)
    /\ config = ConfigNew
    /\ io = EnvOk
    /\ stdout = << >>
    /\ stderr = << >>
    /\ exit = << >>
    /\ gitlog = << >>
    /\ idx = 0
    /\ runs = 0
    /\ res = NoResult
    /\ prev = Snapshot

ApiFrame ==
    /\ prev' = Snapshot
    /\ UNCHANGED <<pc, argv, rest, heads, state, stdout, stderr, exit, gitlog, idx>>

\* Config::new()
ApiNew ==
    /\ runs < MaxCalls
    /\ runs' = runs + 1
    /\ config' = ConfigNew
    /\ res' = [op |-> "new", result |-> "Ok"]
    /\ io' = EnvOk
    /\ UNCHANGED fs
    /\ ApiFrame

\* config.read_config(path); a panic ends the process, and with it the Config
ApiReadConfig ==
    /\ runs < MaxCalls
    /\ runs' = runs + 1
    /\ \E env \in LoadEnvs(fs, state.config) :
        LET r == ReadConfig(config, state.config, fs, env)
        IN  /\ io' = env
            /\ res' = [op |-> "read_config", result |-> r.result]
            /\ fs' = r.fs
            /\ config' = IF r.result = "panic" THEN ConfigNew ELSE r.config
    /\ ApiFrame

\* config.repositories.push(repo)
ApiPush(repo) ==
    /\ runs < MaxCalls
    /\ runs' = runs + 1
    /\ config' = Push(config, repo)
    /\ res' = [op |-> "push", result |-> "Ok"]
    /\ io' = EnvOk
    /\ UNCHANGED fs
    /\ ApiFrame

\* config.save_config()
ApiSaveConfig ==
    /\ runs < MaxCalls
    /\ runs' = runs + 1
    /\ \E w \in BOOLEAN :
        LET saved == SaveConfig(config, fs, w)
        IN  /\ io' = [EnvOk EXCEPT !.write = w]
            /\ res' = [op |-> "save_config", result |-> saved.result]
            /\ fs' = saved.fs
    /\ UNCHANGED config
    /\ ApiFrame

NextApi ==
    \/ ApiNew
    \/ ApiReadConfig
    \/ \E repo \in Repositories : ApiPush(repo)
    \/ ApiSaveConfig

SpecApi == InitApi /\ [][NextApi]_vars

-----------------------------------------------------------------------------
(* Vocabulary of the properties *)

IsPrefix(s, u) == Len(s) <= Len(u) /\ SubSeq(u, 1, Len(s)) = s

Occurrences(s, e) == Cardinality({i \in 1..Len(s) : s[i] = e})

NoDuplicates(s) == \A i, j \in 1..Len(s) : i # j => s[i] # s[j]

\* equality of two entries as the inventory defines it
SameEntry(a, b) == a.name = b.name /\ a.url = b.url /\ a.category = b.category

\* the repositories the inventory file at `path` of filesystem f holds
ReposAt(f, path) ==
    LET file == Components(path)
        parsed == TomlFromStr(f.files[file])
    IN  IF file \in DOMAIN f.files /\ parsed.ok
        THEN parsed.config.repositories
        ELSE << >>

FileRepos(f) == ReposAt(f, DefaultConfigPath)

\* a string without the spaces that pad it
RECURSIVE TrimEnd(_)
TrimEnd(s) ==
    IF s # << >> /\ s[Len(s)] = " " THEN TrimEnd(SubSeq(s, 1, Len(s) - 1)) ELSE s

Loaded == res.op = "save_config" \/ (res.op = "read_config" /\ res.result = "Ok")

Added == <<Line("Repository has been added", << >>)>>

AlreadyTracked == <<Line("Repository is already being tracked", << >>)>>

-----------------------------------------------------------------------------
(* C1: Dedup.  An Add of an entry the inventory does not hold (equal name, *)
(* url and category) appends it, saves it and reports "Repository has     *)
(* been added"; an Add of an entry it holds reports "Repository is        *)
(* already being tracked" and changes neither repositories nor the file;  *)
(* so the same Add run twice in a row leaves exactly one occurrence, and  *)
(* neither the inventory in memory nor the file ever holds two equal      *)
(* entries.                                                                *)

C1_AddOutcome ==
    (pc = "exited" /\ state.cmd = "Add" /\ Loaded) =>
        LET e == AddedRepository(state)
            before == FileRepos(prev.fs)
            after == FileRepos(fs)
            tracked == \E i \in 1..Len(before) : SameEntry(before[i], e)
        IN  /\ tracked =>
                /\ stdout = AlreadyTracked
                /\ config.repositories = before
                /\ fs = prev.fs
            /\ ~tracked =>
                /\ res.op = "save_config"
                /\ config.repositories = Append(before, e)
                /\ res.result = "Ok" =>
                    /\ stdout = Added
                    /\ after = Append(before, e)
            /\ (prev.argv = argv /\ prev.stdout = Added) =>
                /\ stdout = AlreadyTracked
                /\ Occurrences(config.repositories, e) = 1
                /\ Occurrences(after, e) = 1
                /\ fs = prev.fs

\* C1: an add of an untracked (name, url, category) appends it once and
\* saves; an add of a tracked one reports it and changes nothing; no entry is
\* ever held twice, in memory or in the file.
C1_Dedup ==
    /\ C1_AddOutcome
    /\ NoDuplicates(config.repositories)
    /\ NoDuplicates(FileRepos(fs))

C1_Witness ==
    /\ pc = "exited"
    /\ state.cmd = "Add"
    /\ prev.argv = argv
    /\ prev.stdout = Added
    /\ stdout = AlreadyTracked
    /\ Len(FileRepos(fs)) = 2

-----------------------------------------------------------------------------
(* C7: Order preservation.  Across invocations the inventory file only    *)
(* grows at its end, by at most one entry per invocation; the inventory   *)
(* in memory extends what the file held; List prints one row per entry in *)
(* that order; Fetch issues its k-th external invocation for the k-th     *)
(* entry, one entry after another.                                         *)

C7_ListInOrder ==
    (pc = "exited" /\ state.cmd = "List" /\ Loaded) =>
        LET repos == FileRepos(fs)
        IN  /\ Len(stdout) = Len(repos) + 1
            /\ stdout[1].tag = "header"
            /\ \A i \in 1..Len(repos) :
                /\ stdout[i + 1].tag = "row"
                /\ TrimEnd(stdout[i + 1].cols[1]) = repos[i].name
                /\ TrimEnd(stdout[i + 1].cols[2]) = repos[i].url
                /\ stdout[i + 1].cols[3] = UnwrapOrEmpty(repos[i].category)

C7_FetchInOrder ==
    (pc \in {"fetch", "exited"} /\ state.cmd = "Fetch" /\ Loaded) =>
        LET repos == FileRepos(fs)
        IN  /\ Len(gitlog) \in {idx - 1, idx}
            /\ Len(gitlog) <= Len(repos)
            /\ \A k \in 1..Len(gitlog) :
                /\ gitlog[k].idx = k
                /\ IF gitlog[k].args[3] = s_git_clone
                   THEN gitlog[k].args[4] = repos[k].url /\ gitlog[k].args[5] = repos[k].name
                   ELSE LET dir == Components(gitlog[k].args[2])
                        IN  dir[Len(dir)] = repos[k].name

\* C7: the inventory only grows at its end, and list and fetch walk it in
\* insertion order.
C7_OrderPreserved ==
    LET before == FileRepos(prev.fs)
        after == FileRepos(fs)
    IN  /\ IsPrefix(before, after)
        /\ Len(after) <= Len(before) + 1
        /\ (pc \in {"run", "fetch"} \/ (pc = "exited" /\ Loaded)) =>
                /\ IsPrefix(before, config.repositories)
                /\ IsPrefix(after, config.repositories)
        /\ C7_ListInOrder
        /\ C7_FetchInOrder

C7_Witness ==
    /\ pc = "exited"
    /\ state.cmd = "List"
    /\ Len(config.repositories) = 2
    /\ Len(stdout) = 3
    /\ stdout[2].cols[3] # stdout[3].cols[3]

-----------------------------------------------------------------------------
(* C4: Directory layout of sync.  Every iteration of the loop issues      *)
(* exactly one external invocation for its entry: `-C <repo_dir> fetch    *)
(* --all` when repo_dir = S/C/n (S/n without a category) is a directory   *)
(* at that moment, else `-C <category dir> clone u n`, the category       *)
(* directory having been created when the environment allows it.          *)

CatDir(c, e) ==
    Components(c.source_dir) \o (IF IsSome(e.category) THEN <<e.category[1]>> ELSE << >>)

RepoDir(c, e) == Append(CatDir(c, e), e.name)

C4_Iteration ==
    (pc = "fetch" /\ idx <= Len(config.repositories)) =>
        LET e == config.repositories[idx]
            call == gitlog'[Len(gitlog')]
        IN  /\ Len(gitlog') = Len(gitlog) + 1
            /\ SubSeq(gitlog', 1, Len(gitlog)) = gitlog
            /\ call.idx = idx
            /\ call.args[1] = s_git_C
            /\ IF RepoDir(config, e) \in fs.dirs
               THEN /\ Len(call.args) = 4
                    /\ Components(call.args[2]) = RepoDir(config, e)
                    /\ call.args[3] = s_git_fetch
                    /\ call.args[4] = s_git_all
                    /\ fs' = fs
               ELSE /\ Len(call.args) = 5
                    /\ Components(call.args[2]) = CatDir(config, e)
                    /\ call.args[3] = s_git_clone
                    /\ call.args[4] = e.url
                    /\ call.args[5] = e.name
                    /\ io'.mkdir => Prefixes(CatDir(config, e)) \subseteq fs'.dirs

\* C4: every fetch iteration works on <source_dir>/<category>/<name>,
\* creating the category directory first and cloning into it when the
\* repository directory is absent.
C4_DirectoryLayout == [][C4_Iteration]_vars

\* the second entry is fetched in the directory the first entry's clone made
C4_Witness ==
    /\ Len(gitlog) = 2
    /\ gitlog[1].args[3] = s_git_clone
    /\ gitlog[1].outcome = "zero"
    /\ Len(gitlog[2].args) = 4
    /\ gitlog[2].args[3] = s_git_fetch
    /\ Components(gitlog[2].args[2])
         = Append(Components(gitlog[1].args[2]), gitlog[1].args[5])

-----------------------------------------------------------------------------
(* C5: Sync resilience.  Whatever fails while an entry is processed, every *)
(* entry of the inventory gets its external invocation and the program    *)
(* ends with status 0.                                                     *)

C5_SyncResilience ==
    (pc = "exited" /\ state.cmd = "Fetch" /\ Loaded) =>
        /\ exit = Some(0)
        /\ Len(gitlog) = Len(config.repositories)
        /\ \A k \in 1..Len(gitlog) : gitlog[k].idx = k

-----------------------------------------------------------------------------
(* C10: Exit status.  An invocation ends with status 1 when loading the   *)
(* inventory failed (unreadable, unparsable, or directory creation or the *)
(* default file's write failing on first run) and with status 0           *)
(* otherwise; with no other status.                                        *)

LoadFailed == res.op = "read_config" /\ res.result # "Ok"

\* C10: the process ends with status 1 exactly when loading the inventory
\* failed and with status 0 otherwise.
C10_ExitStatus ==
    pc = "exited" => exit = IF LoadFailed THEN Some(1) ELSE Some(0)

-----------------------------------------------------------------------------
(* C8: Command precedence of the parser.  Original statement: a --help,   *)
(* -h or --dump-config token anywhere in the stream makes the command     *)
(* Help or DumpConfig.  As amended: such a token that the loop examines   *)
(* as an argument of its own (one not consumed as the operand of --config *)
(* or as the category, name or url of add) does, the last of them         *)
(* deciding; with none, the first verb examined decides (an add short of  *)
(* operands selects nothing); with neither, the command is Help.  The     *)
(* parser ends with exactly one command.                                   *)

Commands == {"Add", "Help", "Fetch", "List", "DumpConfig"}

IsCommandFlag(t) ==
    \/ t = s_dashdash \o s_help
    \/ t = s_dashdash \o s_dump_config
    \/ /\ StartsWith(t, s_dash)
       /\ ~StartsWith(t, s_dashdash)
       /\ \E i \in 1..Len(t) : t[i] = "h"

FlagCommand(t) == IF t = s_dashdash \o s_dump_config THEN "DumpConfig" ELSE "Help"

IsVerb(t) == t \in {s_add, s_fetch, s_list}

FlagHeads == {i \in 1..Len(heads) : IsCommandFlag(heads[i])}

VerbHeads == {i \in 1..Len(heads) : IsVerb(heads[i])}

FirstVerb == heads[CHOOSE i \in VerbHeads : \A j \in VerbHeads : i <= j]

\* C8 as stated: a --help or --dump-config token anywhere on the command line
\* decides the command.
C8_FlagAnywhere ==
    pc = "parsed" =>
        /\ state.cmd \in Commands
        /\ (\E i \in 1..Len(argv) : IsCommandFlag(argv[i])) =>
                state.cmd \in {"Help", "DumpConfig"}

\* C8 as amended: a command flag decides the command when it is examined as
\* an argument of its own; otherwise the first verb examined decides, and
\* Help is the fallback.
C8_Precedence ==
    pc = "parsed" =>
        /\ state.cmd \in Commands
        /\ FlagHeads # {} => state.cmd = FlagCommand(heads[Max(FlagHeads)])
        /\ (FlagHeads = {} /\ VerbHeads = {}) => state.cmd = "Help"
        /\ (FlagHeads = {} /\ VerbHeads # {}) =>
                IF FirstVerb = s_fetch THEN state.cmd = "Fetch"
                ELSE IF FirstVerb = s_list THEN state.cmd = "List"
                ELSE state.cmd \in {"Add", "Help"}

\* a flag examined after a verb had selected a command
C8_Witness ==
    /\ pc = "parsed"
    /\ \E i, j \in 1..Len(heads) :
        /\ i < j
        /\ heads[i] = s_fetch
        /\ heads[j] = s_dashdash \o s_dump_config
    /\ state.cmd = "DumpConfig"

-----------------------------------------------------------------------------
(* C9: Parsing of add.  When the loop examines `add` with no command      *)
(* chosen: after `--category` or `-c` the next token is the category and  *)
(* the two after it name and url, otherwise the two tokens after `add`    *)
(* are name and url and the category is absent; the command becomes Add   *)
(* with those values, which later tokens do not change.  With the name or *)
(* the url missing a diagnostic is printed, Add is not selected, and the  *)
(* command ends as Help.                                                   *)

C9_AddStep ==
    (pc = "parse" /\ rest # << >> /\ Head(rest) = s_add /\ state.cmd = "None") =>
        LET t == Tail(rest)
            withCat == Len(t) >= 1 /\ t[1] \in {s_category_flag, s_c_flag}
            operands == IF withCat THEN SubSeq(t, 3, Len(t)) ELSE t
        IN  IF Len(operands) >= 2
            THEN /\ state' = [state EXCEPT !.cmd = "Add",
                                           !.name = Some(operands[1]),
                                           !.url = Some(operands[2]),
                                           !.category = IF withCat THEN Some(t[2]) ELSE << >>]
                 /\ rest' = SubSeq(operands, 3, Len(operands))
                 /\ stderr' = stderr
            ELSE /\ state'.cmd = "None"
                 /\ Len(stderr') = Len(stderr) + 1
                 /\ stderr'[Len(stderr')] \in {"No Name provided for command",
                                               "No URL provided for command"}
                 /\ rest' = << >>

C9_AddKept ==
    state.cmd = "Add" =>
        /\ state'.name = state.name
        /\ state'.url = state.url
        /\ state'.category = state.category

C9_AddEnd ==
    pc = "parsed" =>
        /\ (\E i \in 1..Len(stderr) : stderr[i] \in {"No Name provided for command",
                                                     "No URL provided for command"})
                => state.cmd = "Help"
        /\ state.cmd = "Add" =>
                /\ IsSome(state.name)
                /\ IsSome(state.url)
                /\ AddedRepository(state)
                     = RepositoryNew(state.name[1], state.url[1], state.category)

\* C9: add takes its optional category flag, then name and url, consuming
\* exactly those tokens, and fails over to Help when an operand is missing.
C9_ParseAdd == [][C9_AddStep /\ C9_AddKept]_vars /\ []C9_AddEnd

C9_Witness ==
    /\ pc = "parsed"
    /\ heads = <<argv0, s_add>>
    /\ argv = <<argv0, s_add, s_c_flag, n_r, n_r, n_r>>
    /\ state.cmd = "Add"
    /\ state.category = Some(n_r)

-----------------------------------------------------------------------------
(* C2: Round trip.  After a save_config that succeeded, a fresh           *)
(* Config::new() that reads the same path holds the same source_dir and   *)
(* the same repositories, field by field and in the same order; the file  *)
(* carries no config_location.                                             *)

C2_RoundTrip ==
    (res.op = "save_config" /\ res.result = "Ok") =>
        LET path == config.config_location
            again == ReadConfig(ConfigNew, path, fs, EnvOk)
        IN  /\ path = state.config
            /\ again.result = "Ok"
            /\ again.fs = fs
            /\ again.config.source_dir = config.source_dir
            /\ Len(again.config.repositories) = Len(config.repositories)
            /\ \A i \in 1..Len(config.repositories) :
                    SameEntry(again.config.repositories[i], config.repositories[i])
            /\ again.config.config_location = path
            /\ \A i \in 1..Len(fs.files[Components(path)]) :
                    fs.files[Components(path)][i].key # "config_location"

C2_Witness ==
    /\ res = [op |-> "save_config", result |-> "Ok"]
    /\ config.source_dir = OtherSourceDir
    /\ Len(config.repositories) = 2
    /\ config.repositories[1].category = << >>
    /\ IsSome(config.repositories[2].category)
    /\ ReposAt(fs, state.config) = config.repositories

-----------------------------------------------------------------------------
(* C3: First-run initialisation.  read_config on a default Config, at a   *)
(* path where nothing exists and with the environment letting directory   *)
(* creation and the write through, succeeds, creates every parent         *)
(* directory, writes a file that parses to the default, leaves the Config *)
(* the default and sets config_location.  When the file exists it is not  *)
(* written, and a successful read replaces source_dir and repositories    *)
(* with the parsed values and sets config_location.                        *)

ParentDirs(path) == Prefixes(Components(path)) \ {Components(path)}

\* C3: read_config on a missing file creates the parent directories and
\* writes the default Config there; on an existing file it writes nothing and
\* loads the parsed values.
C3_FirstRun ==
    res.op = "read_config" =>
        LET path == state.config
            file == Components(path)
        IN  /\ (~PathExists(prev.fs, path) /\ prev.config = ConfigNew
                    /\ io.mkdir /\ io.write) =>
                /\ res.result = "Ok"
                /\ ParentDirs(path) \subseteq fs.dirs
                /\ fs.dirs = prev.fs.dirs \cup ParentDirs(path)
                /\ DOMAIN fs.files = DOMAIN prev.fs.files \cup {file}
                /\ TomlFromStr(fs.files[file]) = [ok |-> TRUE, config |-> ConfigNew]
                /\ config = [ConfigNew EXCEPT !.config_location = path]
            /\ IsFile(prev.fs, path) =>
                /\ fs = prev.fs
                /\ res.result = "Ok" =>
                    LET parsed == TomlFromStr(prev.fs.files[file]).config
                    IN  /\ config.config_location = path
                        /\ config.source_dir = parsed.source_dir
                        /\ config.repositories = parsed.repositories

\* the file and its two missing parent directories have been created
C3_Witness ==
    /\ res = [op |-> "read_config", result |-> "Ok"]
    /\ state.config = DefaultConfigPath
    /\ ~PathExists(prev.fs, state.config)
    /\ ParentDirs(state.config) \cap prev.fs.dirs = {<< >>, Components(HOME)}
    /\ IsFile(fs, state.config)
    /\ config.config_location = state.config

-----------------------------------------------------------------------------
(* C6: Save precondition.  Original statement: save_config on a Config    *)
(* whose config_location is unset fails with StateError and writes        *)
(* nothing.  As amended: it fails with the I/O error of writing to the    *)
(* empty path and writes nothing; a save succeeds only with               *)
(* config_location set by an earlier read_config, and then the file at    *)
(* config_location holds the serialised Config and nothing else changed.  *)

====
